---- MODULE Spec2Model ----
(***************************************************************************)
(* A model of the solo-ui command line tool: the three commands add, init  *)
(* and list, each a pipeline of awaited filesystem / git steps wrapped in  *)
(* try / catch / finally, over one working directory.                      *)
(*                                                                         *)
(* The repository holds two revisions of the tool:                         *)
(*   "cli"  src/packages/cli/src/index.ts  (targets components/, styles/)  *)
(*   "src"  src/unnamed/part_001           (targets src/components/, ...)  *)
(* A behaviour runs one of them (variable variant).                        *)
(*                                                                         *)
(* Texts (file contents) are sequences of one-character strings.           *)
(***************************************************************************)
EXTENDS Integers, Sequences, FiniteSets, TLC

\* ------------------------------------------------------------------ bounds
MaxLen == 3      \* longest stylesheet / fragment text drawn in SpecMerge
MaxRuns == 2     \* command invocations started in one behaviour

\* ------------------------------------------------------------------- texts
NL == "\n"
Chars == {"a", NL}

Texts(n) == UNION {[1..k -> Chars] : k \in 0..n}

\* String.prototype.includes: needle occurs in hay as a literal substring.
includes(hay, needle) ==
    \E i \in 0..(Len(hay) - Len(needle)) :
        SubSeq(hay, i + 1, i + Len(needle)) = needle

\* Number of (possibly overlapping) occurrences of needle in hay.
Occurrences(hay, needle) ==
    Cardinality({i \in 0..(Len(hay) - Len(needle)) :
                    SubSeq(hay, i + 1, i + Len(needle)) = needle})

IsPrefix(s, t) == Len(s) <= Len(t) /\ SubSeq(t, 1, Len(s)) = s

\* A mergeStyles that always appends (the idempotence guard dropped).
MergeTextNoGuard(globalStyles, componentStyles) ==
    globalStyles \o <<NL>> \o componentStyles

\* A mergeStyles that appends without the separating newline.
MergeTextNoNewline(globalStyles, componentStyles) ==
    IF includes(globalStyles, componentStyles)
    THEN globalStyles
    ELSE globalStyles \o componentStyles

\* The text mergeStyles leaves in the global stylesheet when both files exist:
\* if (!globalStyles.includes(componentStyles)) appendFile(`\n${componentStyles}`)
MergeText(globalStyles, componentStyles) ==
    IF includes(globalStyles, componentStyles)
    THEN globalStyles
    ELSE globalStyles \o <<NL>> \o componentStyles

\* ------------------------------------------------------- trees and entries
EmptyFn == [x \in {} |-> x]

\* A directory entry (its files, by name) and a plain file entry.
Dir(fileMap) == [kind |-> "dir", files |-> fileMap]
File(text) == [kind |-> "file", files |-> ("." :> text)]

ButtonDir ==
    Dir(("index.tsx" :> <<"b">>) @@ ("styles.css" :> <<"a">>) @@ ("types.ts" :> <<"t">>))
CardDir == Dir(("index.tsx" :> <<"c">>) @@ ("styles.css" :> <<"a", NL, "a">>))
BadgeDir == Dir(("index.tsx" :> <<"d">>))
StylesDir == Dir(("globals.css" :> <<"g">>))

\* Texts of tailwind.config.js are token sequences: "c" is `content:`, "_" is
\* white space, "[" and "]" the brackets, "g" the glob the tool writes, and
\* any other token some other text.
TailwindRemote == <<"x", "c", "_", "[", "p", "]", "x", "]">>
TailwindOdd == <<"x", "[", "c", "x">>
PostcssRemote == <<"p">>

\* The remote repository, as a clone of it lays it out in the scratch directory:
\* components = packages/components/*, legacy = components/*, files = the
\* files at the repository root.
RepoFull ==
    [components |-> ("button" :> ButtonDir) @@ ("card" :> CardDir)
                    @@ ("styles" :> StylesDir) @@ ("package.json" :> File(<<"j">>))
                    @@ ("node_modules" :> Dir(("dep.js" :> <<"m">>)))
                    @@ (".turbo" :> Dir(("log" :> <<"l">>))),
     legacy |-> EmptyFn,
     files |-> ("tailwind.config.js" :> TailwindRemote)
               @@ ("postcss.config.js" :> PostcssRemote)
               @@ ("package.json" :> <<"j">>),
     version |-> "0.1.0"]

RepoLegacy ==
    [components |-> ("button" :> ButtonDir) @@ ("styles" :> StylesDir),
     legacy |-> ("button" :> ButtonDir) @@ ("badge" :> BadgeDir),
     files |-> ("tailwind.config.js" :> TailwindOdd),
     version |-> "0.2.0"]

RepoBare ==
    [components |-> ("styles" :> StylesDir) @@ ("package.json" :> File(<<"j">>)),
     legacy |-> EmptyFn,
     files |-> ("tailwind.config.js" :> TailwindRemote)
               @@ ("postcss.config.js" :> PostcssRemote),
     version |-> "0.1.0"]

RepoEmpty ==
    [components |-> EmptyFn, legacy |-> EmptyFn, files |-> EmptyFn,
     version |-> "0.1.0"]

Repos == {RepoFull, RepoLegacy, RepoBare, RepoEmpty}

\* Package manifests of the target project, as parsed JSON objects.
ManifestPlain == ("name" :> "app")
ManifestDev ==
    ("name" :> "app") @@ ("version" :> "0.1.0")
    @@ ("dependencies" :> ("react" :> "^18.0.0"))
    @@ ("devDependencies" :> (("eslint" :> "^9.0.0") @@ ("tailwindcss" :> "^2.0.0")))
ManifestDeps == ("name" :> "app") @@ ("dependencies" :> ("react" :> "^18.0.0"))
Manifests == {ManifestPlain, ManifestDeps, ManifestDev}

ComponentArgs == {"button", "card", "badge", "ghost"}
NoChoice == ""

Variants == {"cli", "src"}
Procs == {"p1", "p2"}
Shell == {"p1"}

\* ------------------------------------------------------- pure operations
\* name.startsWith(".") over the entry names of the modelled repositories.
StartsWithDot(name) == name \in {".turbo", ".git", ".DS_Store"}

ExcludedNames == {"styles", "package.json", "node_modules"}

\* list of the src revision: the filter over the entries of packages/components.
FilteredChoices(entries) ==
    {name \in DOMAIN entries :
        /\ ~StartsWithDot(name)
        /\ name \notin ExcludedNames
        /\ entries[name].kind = "dir"}

\* list of the cli revision: every entry readdir returns is a choice.
UnfilteredChoices(entries) == DOMAIN entries

ListChoices(v, entries) ==
    IF v = "cli" THEN UnfilteredChoices(entries) ELSE FilteredChoices(entries)

\* fs.copy(src, dest) onto an existing entry of another kind throws.
CopyFails(src, dest, name) ==
    name \in DOMAIN dest /\ dest[name].kind # src.kind

\* fs.copy(src, dest) that forgets one file of the source directory.
CopyEntryDropsFile(src, dest, name) ==
    LET kept == {f \in DOMAIN src.files : f # "index.tsx"}
        part == [f \in kept |-> src.files[f]]
    IN  (name :> Dir(part)) @@ dest

\* A copy that replaces the whole target components directory by the new entry.
CopyEntryReplacesAll(src, dest, name) == (name :> src)

\* fs.copy(src, dest): the source's files overwrite the destination's, files
\* only the destination has stay.
CopyEntry(src, dest, name) ==
    IF name \in DOMAIN dest /\ src.kind = "dir"
    THEN [dest EXCEPT ![name] = Dir(src.files @@ dest[name].files)]
    ELSE (name :> src) @@ dest

TailwindReplacement == <<"c", "_", "[", "g", "]">>

\* /content:\s*\[[^]*?\]/ matches at i: `content:`, white space, "[", then
\* lazily anything up to the first "]".
BracketAfter(cfg, i) ==
    {j \in (i + 1)..Len(cfg) :
        cfg[j] = "[" /\ \A k \in (i + 1)..(j - 1) : cfg[k] = "_"}
ClosersAfter(cfg, j) == {e \in (j + 1)..Len(cfg) : cfg[e] = "]"}
MatchStarts(cfg) ==
    {i \in 1..Len(cfg) :
        /\ cfg[i] = "c"
        /\ \E j \in BracketAfter(cfg, i) : ClosersAfter(cfg, j) # {}}
Least(S) == CHOOSE x \in S : \A y \in S : x <= y

\* modifyTailwindConfig: config.replace(regex, 'content: [...]'), first match only.
ModifyTailwind(cfg) ==
    IF MatchStarts(cfg) = {} THEN cfg
    ELSE LET i == Least(MatchStarts(cfg))
             j == Least(BracketAfter(cfg, i))
             e == Least(ClosersAfter(cfg, j))
         IN  SubSeq(cfg, 1, i - 1) \o TailwindReplacement
                 \o SubSeq(cfg, e + 1, Len(cfg))

PinnedDevDependencies ==
    ("tailwindcss" :> "^3.4.0") @@ ("postcss" :> "^8.4.0") @@ ("autoprefixer" :> "^10.4.0")

\* An init that replaces devDependencies instead of spreading the old ones in.
InitManifestNoSpread(m) ==
    ("devDependencies" :> PinnedDevDependencies) @@ m

\* An init that writes back only the fields it touched.
InitManifestDropsFields(m) ==
    LET dev == IF "devDependencies" \in DOMAIN m THEN m["devDependencies"] ELSE EmptyFn
    IN  ("devDependencies" :> (PinnedDevDependencies @@ dev))
            @@ ("dependencies" :> EmptyFn)

\* init: the manifest object written back by writeJson.
InitManifest(m) ==
    LET withDeps == IF "dependencies" \in DOMAIN m
                    THEN m ELSE m @@ ("dependencies" :> EmptyFn)
        dev == IF "devDependencies" \in DOMAIN m THEN m["devDependencies"] ELSE EmptyFn
    IN  ("devDependencies" :> (PinnedDevDependencies @@ dev)) @@ withDeps

\* ------------------------------------------------------------------- state
VARIABLES
    variant,         \* which revision of the tool runs
    repo,            \* the remote repository a clone fetches
    hasPackageJson,  \* package.json exists in the working directory
    manifest,        \* its parsed content
    dirs,            \* which of the target directories styles, components exist
    files,           \* target files by name: globals.css, tailwind.config.js, postcss.config.js
    installed,       \* the entries of the target components directory
    scratch,         \* TEMP_DIR: [state, owner]; owner is the run that made it, 0 for none
    runs,            \* invocations started so far
    pc, cmd, arg,    \* per process: position, command, component argument / selection
    err,             \* per process: the error thrown in the try block, "none" if none
    log,             \* per process: spinner reports and the cleanup mark, in order
    run,             \* per process: the number of its invocation
    snap,            \* per process: the file tree when its invocation started
    prior,           \* per process: how its previous invocation went (history)
    fetched,         \* per process: git.clone was called
    foreign,         \* per process: it cloned into, read or removed another run's scratch
    choices,         \* per process: the choices list handed to the prompt
    mG, mF, mN,      \* the style merge alone: stylesheet, fragment, merges done
    mG0, mG1         \* the stylesheet before the first merge and after it

fsVars == <<hasPackageJson, manifest, dirs, files, installed>>
envVars == <<variant, repo>>
procVars == <<pc, cmd, arg, err, log, run, snap, prior, fetched, foreign, choices>>
mergeVars == <<mG, mF, mN, mG0, mG1>>
vars == <<envVars, fsVars, scratch, runs, procVars, mergeVars>>

\* The file tree of the working directory, scratch directory included.
Tree ==
    [hasPackageJson |-> hasPackageJson, manifest |-> manifest, dirs |-> dirs,
     files |-> files, installed |-> installed, scratch |-> scratch.state]

Absent == [state |-> "absent", owner |-> 0]
Stale == [state |-> "stale", owner |-> 0]

\* What the scratch directory holds for a reader: the clone, or nothing.
ScratchComponents == IF scratch.state = "clone" THEN repo.components ELSE EmptyFn
ScratchLegacy == IF scratch.state = "clone" THEN repo.legacy ELSE EmptyFn
ScratchFiles == IF scratch.state = "clone" THEN repo.files ELSE EmptyFn

\* add of the cli revision resolves path.join(TEMP_DIR, "components", c),
\* add of the src revision path.join(TEMP_DIR, "packages/components", c).
AddSource == IF variant = "cli" THEN ScratchLegacy ELSE ScratchComponents

\* The catalog directory componentPath of process p lies in.
SourceOf(p) == IF cmd[p] = "add" THEN AddSource ELSE ScratchComponents

\* p touches a scratch directory that exists and that another run made.
Touches(p) == scratch.state # "absent" /\ scratch.owner # run[p]

\* No invocation came before.
NoPrior == "none"

\* How the invocation that p ran before this one went: an init that ran to
\* its end without error, a run the operating system ended, or any other.
PriorOf(p) ==
    CASE pc[p] = "idle" -> NoPrior
      [] pc[p] = "killed" -> "killed"
      [] pc[p] = "done" /\ err[p] = "none" /\ cmd[p] = "init" -> "init"
      [] OTHER -> "other"

Idle ==
    /\ pc = [p \in Procs |-> "idle"]
    /\ cmd = [p \in Procs |-> "none"]
    /\ arg = [p \in Procs |-> NoChoice]
    /\ err = [p \in Procs |-> "none"]
    /\ log = [p \in Procs |-> <<>>]
    /\ run = [p \in Procs |-> 0]
    /\ fetched = [p \in Procs |-> FALSE]
    /\ foreign = [p \in Procs |-> FALSE]
    /\ choices = [p \in Procs |-> {}]

MergeIdle == mG = <<>> /\ mF = <<>> /\ mN = 0 /\ mG0 = <<>> /\ mG1 = <<>>

UserFiles ==
    {EmptyFn,
     ("globals.css" :> <<"u">>),
     ("globals.css" :> <<"a">>) @@ ("tailwind.config.js" :> <<"x">>)}

UserInstalled == {EmptyFn, ("card" :> Dir(("index.tsx" :> <<"e">>) @@ ("notes.md" :> <<"n">>)))}

Init ==
    /\ variant \in Variants
    /\ repo \in Repos
    /\ hasPackageJson \in BOOLEAN
    /\ manifest \in (IF hasPackageJson THEN Manifests ELSE {EmptyFn})
    /\ files \in UserFiles
    /\ installed \in UserInstalled
    /\ dirs = (IF "globals.css" \in DOMAIN files THEN {"styles"} ELSE {})
                \cup (IF installed # EmptyFn THEN {"components"} ELSE {})
    /\ scratch \in {Absent, Stale}
    /\ runs = 0
    /\ Idle
    /\ snap = [p \in Procs |-> Tree]
    /\ prior = [p \in Procs |-> NoPrior]
    /\ MergeIdle

\* ----------------------------------------------------------------- actions
Goto(p, label) == pc' = [pc EXCEPT ![p] = label]

\* An error that skips the catch clause and reaches the finally block unreported.
ThrowUnreported(p, e) ==
    /\ pc' = [pc EXCEPT ![p] = "cleanup"]
    /\ err' = [err EXCEPT ![p] = e]

\* An error thrown inside the try block lands in the catch clause.
Throw(p, e) ==
    /\ pc' = [pc EXCEPT ![p] = "catch"]
    /\ err' = [err EXCEPT ![p] = e]

Report(p, what) == log' = [log EXCEPT ![p] = Append(@, what)]

Sees(p) == foreign' = [foreign EXCEPT ![p] = @ \/ Touches(p)]

\* A command that skips checkProjectConfig.
FirstStepUnchecked(c) == "ensure"

\* The first awaited call of a command's try block: checkProjectConfig in
\* add and init, ensureDir(TEMP_DIR) in list.
FirstStep(c) == IF c = "list" THEN "ensure" ELSE "validate"

\* A command starts: the action callback is entered, ora(...).start().
Start(p) ==
    /\ pc[p] \in {"idle", "done", "killed"}
    /\ runs < MaxRuns
    /\ \E c \in {"add", "init", "list"} :
       \E a \in (IF c = "add" THEN ComponentArgs ELSE {NoChoice}) :
          /\ cmd' = [cmd EXCEPT ![p] = c]
          /\ arg' = [arg EXCEPT ![p] = a]
          /\ pc' = [pc EXCEPT ![p] = FirstStep(c)]
    /\ runs' = runs + 1
    /\ run' = [run EXCEPT ![p] = runs + 1]
    /\ err' = [err EXCEPT ![p] = "none"]
    /\ log' = [log EXCEPT ![p] = <<>>]
    /\ snap' = [snap EXCEPT ![p] = Tree]
    /\ prior' = [prior EXCEPT ![p] = PriorOf(p)]
    /\ fetched' = [fetched EXCEPT ![p] = FALSE]
    /\ foreign' = [foreign EXCEPT ![p] = FALSE]
    /\ choices' = [choices EXCEPT ![p] = {}]
    /\ UNCHANGED <<envVars, fsVars, scratch, mergeVars>>

\* checkProjectConfig
Validate(p) ==
    /\ pc[p] = "validate"
    /\ IF hasPackageJson
       THEN Goto(p, "ensure") /\ UNCHANGED err
       ELSE Throw(p, "NotAProject")
    /\ UNCHANGED <<envVars, fsVars, scratch, runs, cmd, arg, log, run, snap, prior,
                   fetched, foreign, choices, mergeVars>>

\* fs.ensureDir(TEMP_DIR): creates the directory unless something is there.
EnsureScratch(p) ==
    IF scratch.state = "absent"
    THEN [state |-> "empty", owner |-> run[p]]
    ELSE scratch

\* The ensureDir calls that precede the clone:
\*   add, cli: TEMP_DIR                 add, src: TEMP_DIR, src/components
\*   init:     styles, components       list:     TEMP_DIR
EnsureDirs(p) ==
    /\ pc[p] = "ensure"
    /\ scratch' = IF cmd[p] = "init" THEN scratch ELSE EnsureScratch(p)
    /\ dirs' = CASE cmd[p] = "init" -> dirs \cup {"styles", "components"}
                 [] cmd[p] = "add" /\ variant = "src" -> dirs \cup {"components"}
                 [] OTHER -> dirs
    /\ Goto(p, "clone")
    /\ UNCHANGED <<envVars, hasPackageJson, manifest, files, installed, runs,
                   cmd, arg, err, log, run, snap, prior, fetched, foreign, choices, mergeVars>>

AfterClone(p) ==
    CASE cmd[p] = "add" -> "check"
      [] cmd[p] = "init" -> IF variant = "cli" THEN "check" ELSE "copyGlobals"
      [] OTHER -> "readdir"

\* git.clone(REPO_URL, TEMP_DIR, ["--depth", "1"]): git refuses a destination
\* that exists and is not empty; the fetch itself may fail.
Clone(p) ==
    /\ pc[p] = "clone"
    /\ fetched' = [fetched EXCEPT ![p] = TRUE]
    /\ \/ /\ scratch.state \in {"absent", "empty"}
          /\ scratch' = [state |-> "clone", owner |-> run[p]]
          /\ Sees(p)
          /\ Goto(p, AfterClone(p))
          /\ UNCHANGED err
       \/ /\ scratch.state \in {"stale", "clone"}
          /\ Throw(p, "GitError")
          /\ Sees(p)
          /\ UNCHANGED scratch
       \/ /\ scratch.state \in {"absent", "empty"}
          /\ Throw(p, "NetworkError")
          /\ UNCHANGED <<scratch, foreign>>
    /\ UNCHANGED <<envVars, fsVars, runs, cmd, arg, log, run, snap, prior, choices, mergeVars>>

\* checkVersion warns when the versions differ or cannot be read.
VersionWarning ==
    \/ "package.json" \notin DOMAIN ScratchFiles
    \/ ~hasPackageJson
    \/ "version" \notin DOMAIN manifest
    \/ manifest["version"] # repo.version

\* checkVersion (cli revision) and checkComponentDependencies (add): they
\* read the clone and change nothing.
Check(p) ==
    /\ pc[p] = "check"
    /\ IF variant = "cli" /\ VersionWarning
       THEN Report(p, "warn") ELSE UNCHANGED log
    /\ Sees(p)
    /\ Goto(p, IF cmd[p] = "add" THEN "resolve" ELSE "copyGlobals")
    /\ UNCHANGED <<envVars, fsVars, scratch, runs, cmd, arg, err, run, snap, prior,
                   fetched, choices, mergeVars>>

\* add: if (!(await fs.pathExists(componentPath))) throw ...
Resolve(p) ==
    /\ pc[p] = "resolve"
    /\ Sees(p)
    /\ IF arg[p] \in DOMAIN AddSource
       THEN Goto(p, "copy") /\ UNCHANGED err
       ELSE Throw(p, "ComponentNotFound")
    /\ UNCHANGED <<envVars, fsVars, scratch, runs, cmd, arg, log, run, snap, prior,
                   fetched, choices, mergeVars>>

\* add and list: fs.copy(componentPath, targetPath); list of the src revision
\* first ensures src/components.
Copy(p) ==
    /\ pc[p] = "copy"
    /\ Sees(p)
    /\ LET made == IF cmd[p] = "list" /\ variant = "src"
                   THEN dirs \cup {"components"} ELSE dirs
       IN  IF arg[p] \in DOMAIN SourceOf(p)
              /\ ~CopyFails(SourceOf(p)[arg[p]], installed, arg[p])
           THEN /\ installed' = CopyEntry(SourceOf(p)[arg[p]], installed, arg[p])
                /\ dirs' = made \cup {"components"}
                /\ Goto(p, "merge")
                /\ UNCHANGED err
           ELSE /\ Throw(p, "CopyError")
                /\ dirs' = made
                /\ UNCHANGED installed
    /\ UNCHANGED <<envVars, hasPackageJson, manifest, files, scratch, runs, cmd,
                   arg, log, run, snap, prior, fetched, choices, mergeVars>>

\* componentPath holds a styles.css.
HasFragment(p) ==
    /\ arg[p] \in DOMAIN SourceOf(p)
    /\ SourceOf(p)[arg[p]].kind = "dir"
    /\ "styles.css" \in DOMAIN SourceOf(p)[arg[p]].files

Fragment(p) == SourceOf(p)[arg[p]].files["styles.css"]

\* mergeStyles(componentPath)
MergeStyles(p) ==
    /\ pc[p] = "merge"
    /\ Sees(p)
    /\ IF ~HasFragment(p)
       THEN Goto(p, "succeed") /\ UNCHANGED <<files, err>>
       ELSE IF "globals.css" \notin DOMAIN files
            THEN Throw(p, "NoStylesheet") /\ UNCHANGED files
            ELSE /\ files' = [files EXCEPT
                        !["globals.css"] = MergeText(@, Fragment(p))]
                 /\ Goto(p, "succeed")
                 /\ UNCHANGED err
    /\ UNCHANGED <<envVars, hasPackageJson, manifest, dirs, installed, scratch,
                   runs, cmd, arg, log, run, snap, prior, fetched, choices, mergeVars>>

\* init: fs.copy(TEMP_DIR/packages/components/styles/globals.css, styles/globals.css)
HasTemplate ==
    /\ "styles" \in DOMAIN ScratchComponents
    /\ ScratchComponents["styles"].kind = "dir"
    /\ "globals.css" \in DOMAIN ScratchComponents["styles"].files

\* An init that appends the template to a stylesheet that is already there.
CopyGlobalsAppends(p) ==
    /\ pc[p] = "copyGlobals"
    /\ Sees(p)
    /\ IF HasTemplate
       THEN /\ files' = ("globals.css" :>
                            (IF "globals.css" \in DOMAIN files
                             THEN files["globals.css"] ELSE <<>>)
                            \o ScratchComponents["styles"].files["globals.css"])
                            @@ files
            /\ dirs' = dirs \cup {"styles"}
            /\ Goto(p, "copyTailwind")
            /\ UNCHANGED err
       ELSE Throw(p, "MissingSourceFile") /\ UNCHANGED <<files, dirs>>
    /\ UNCHANGED <<envVars, hasPackageJson, manifest, installed, scratch, runs,
                   cmd, arg, log, run, snap, prior, fetched, choices, mergeVars>>

CopyGlobals(p) ==
    /\ pc[p] = "copyGlobals"
    /\ Sees(p)
    /\ IF HasTemplate
       THEN /\ files' = ("globals.css" :> ScratchComponents["styles"].files["globals.css"])
                            @@ files
            /\ dirs' = dirs \cup {"styles"}
            /\ Goto(p, "copyTailwind")
            /\ UNCHANGED err
       ELSE Throw(p, "MissingSourceFile") /\ UNCHANGED <<files, dirs>>
    /\ UNCHANGED <<envVars, hasPackageJson, manifest, installed, scratch, runs,
                   cmd, arg, log, run, snap, prior, fetched, choices, mergeVars>>

\* init: copy tailwind.config.js; the src revision then rewrites its content entry.
CopyTailwind(p) ==
    /\ pc[p] = "copyTailwind"
    /\ Sees(p)
    /\ IF "tailwind.config.js" \in DOMAIN ScratchFiles
       THEN /\ files' = ("tailwind.config.js" :>
                            IF variant = "src"
                            THEN ModifyTailwind(ScratchFiles["tailwind.config.js"])
                            ELSE ScratchFiles["tailwind.config.js"]) @@ files
            /\ Goto(p, "copyPostcss")
            /\ UNCHANGED err
       ELSE Throw(p, "MissingSourceFile") /\ UNCHANGED files
    /\ UNCHANGED <<envVars, hasPackageJson, manifest, dirs, installed, scratch,
                   runs, cmd, arg, log, run, snap, prior, fetched, choices, mergeVars>>

\* init: copy postcss.config.js
CopyPostcss(p) ==
    /\ pc[p] = "copyPostcss"
    /\ Sees(p)
    /\ IF "postcss.config.js" \in DOMAIN ScratchFiles
       THEN /\ files' = ("postcss.config.js" :> ScratchFiles["postcss.config.js"]) @@ files
            /\ Goto(p, "manifest")
            /\ UNCHANGED err
       ELSE Throw(p, "MissingSourceFile") /\ UNCHANGED files
    /\ UNCHANGED <<envVars, hasPackageJson, manifest, dirs, installed, scratch,
                   runs, cmd, arg, log, run, snap, prior, fetched, choices, mergeVars>>

\* init: readJson("package.json"), add the entries, writeJson
UpdateManifest(p) ==
    /\ pc[p] = "manifest"
    /\ IF hasPackageJson
       THEN /\ manifest' = InitManifest(manifest)
            /\ Goto(p, "succeed")
            /\ UNCHANGED err
       ELSE Throw(p, "NoManifest") /\ UNCHANGED manifest
    /\ UNCHANGED <<envVars, hasPackageJson, dirs, files, installed, scratch, runs,
                   cmd, arg, log, run, snap, prior, fetched, foreign, choices, mergeVars>>

\* list: readdir(TEMP_DIR/packages/components), the filter of the src revision,
\* and its early return when nothing is left.
Readdir(p) ==
    /\ pc[p] = "readdir"
    /\ Sees(p)
    /\ IF ScratchComponents = EmptyFn
       THEN Throw(p, "NoCatalog") /\ UNCHANGED <<choices, log>>
       ELSE /\ choices' = [choices EXCEPT ![p] = ListChoices(variant, ScratchComponents)]
            /\ UNCHANGED err
            /\ IF variant = "src" /\ ListChoices(variant, ScratchComponents) = {}
               THEN Report(p, "info") /\ Goto(p, "cleanup")
               ELSE UNCHANGED log /\ Goto(p, "prompt")
    /\ UNCHANGED <<envVars, fsVars, scratch, runs, cmd, arg, run, snap, prior, fetched,
                   mergeVars>>

\* A list that goes on to the copy whatever the prompt returned.
AfterPromptAlwaysCopies(sel) == "copy"

\* list: if (component) { ...copy, merge... }
AfterPrompt(sel) == IF sel = NoChoice THEN "cleanup" ELSE "copy"

\* list: the select prompt returns one of the choices, or nothing; a choice
\* goes on to the copy.
Prompt(p) ==
    /\ pc[p] = "prompt"
    /\ \E sel \in choices[p] \cup {NoChoice} :
          /\ arg' = [arg EXCEPT ![p] = sel]
          /\ Goto(p, AfterPrompt(sel))
    /\ Report(p, "prompt")
    /\ UNCHANGED <<envVars, fsVars, scratch, runs, cmd, err, run, snap, prior,
                   fetched, foreign, choices, mergeVars>>

\* spinner.succeed(...), the last statement of the try block
Succeed(p) ==
    /\ pc[p] = "succeed"
    /\ Report(p, "succeed")
    /\ Goto(p, "cleanup")
    /\ UNCHANGED <<envVars, fsVars, scratch, runs, cmd, arg, err, run, snap, prior,
                   fetched, foreign, choices, mergeVars>>

\* A catch clause that also puts the target project back as it was when the
\* command started.
CatchRollsBack(p) ==
    /\ pc[p] = "catch"
    /\ Report(p, "fail")
    /\ Goto(p, "cleanup")
    /\ dirs' = snap[p].dirs
    /\ files' = snap[p].files
    /\ installed' = snap[p].installed
    /\ UNCHANGED <<envVars, hasPackageJson, manifest, scratch, runs, cmd, arg, err,
                   run, snap, prior, fetched, foreign, choices, mergeVars>>

\* catch (error) { spinner.fail(...) }
Catch(p) ==
    /\ pc[p] = "catch"
    /\ Report(p, "fail")
    /\ Goto(p, "cleanup")
    /\ UNCHANGED <<envVars, fsVars, scratch, runs, cmd, arg, err, run, snap, prior,
                   fetched, foreign, choices, mergeVars>>

\* A cleanupTemp that never removes anything.
RemovedScratchKept(p) == scratch

\* What a successful fs.remove(TEMP_DIR) leaves.
RemovedScratch(p) == Absent

\* finally { await cleanupTemp() }: the directory is removed when it exists;
\* a removal that throws is caught and a warning printed.
Cleanup(p) ==
    /\ pc[p] = "cleanup"
    /\ Sees(p)
    /\ \/ /\ scratch' = (IF scratch.state = "absent" THEN scratch ELSE RemovedScratch(p))
          /\ Report(p, "cleanup")
       \/ /\ scratch.state # "absent"
          /\ UNCHANGED scratch
          /\ log' = [log EXCEPT ![p] = @ \o <<"cleanupWarning", "cleanup">>]
    /\ Goto(p, "done")
    /\ UNCHANGED <<envVars, fsVars, runs, cmd, arg, err, run, snap, prior, fetched,
                   choices, mergeVars>>

Step(p) ==
    \/ Validate(p)
    \/ EnsureDirs(p)
    \/ Clone(p)
    \/ Check(p)
    \/ Resolve(p)
    \/ Copy(p)
    \/ MergeStyles(p)
    \/ CopyGlobals(p)
    \/ CopyTailwind(p)
    \/ CopyPostcss(p)
    \/ UpdateManifest(p)
    \/ Readdir(p)
    \/ Prompt(p)
    \/ Succeed(p)
    \/ Catch(p)
    \/ Cleanup(p)

\* The operating system ends the process at any point of a command: nothing
\* more of it runs, the finally block included. A clone cut short leaves a
\* partial, non-empty scratch directory or none of it.
Kill(p) ==
    /\ pc[p] \notin {"idle", "done", "killed"}
    /\ pc' = [pc EXCEPT ![p] = "killed"]
    /\ \/ UNCHANGED scratch
       \/ /\ pc[p] = "clone"
          /\ scratch.state \in {"absent", "empty"}
          /\ scratch' = [state |-> "stale", owner |-> run[p]]
    /\ UNCHANGED <<envVars, fsVars, runs, cmd, arg, err, log, run, snap, prior,
                   fetched, foreign, choices, mergeVars>>

\* Invocations one after another, as a shell runs them.
Next == \E p \in Shell : Start(p) \/ Step(p) \/ Kill(p)

Spec == Init /\ [][Next]_vars

\* Two invocations in the same working directory at the same time: the steps
\* of the two processes interleave at every await.
InitConc ==
    /\ variant \in Variants
    /\ repo = RepoFull
    /\ hasPackageJson = TRUE
    /\ manifest = ManifestPlain
    /\ files = ("globals.css" :> <<"u">>)
    /\ installed = EmptyFn
    /\ dirs = {"styles"}
    /\ scratch = Absent
    /\ runs = 0
    /\ Idle
    /\ snap = [p \in Procs |-> Tree]
    /\ prior = [p \in Procs |-> NoPrior]
    /\ MergeIdle

NextConc == \E p \in Procs : Start(p) \/ Step(p) \/ Kill(p)

SpecConc == InitConc /\ [][NextConc]_vars

\* The style merge on its own: any stylesheet text, any fragment text, the
\* merge applied twice.
InitMerge ==
    /\ variant = "src"
    /\ repo = RepoEmpty
    /\ hasPackageJson = FALSE
    /\ manifest = EmptyFn
    /\ files = EmptyFn
    /\ installed = EmptyFn
    /\ dirs = {}
    /\ scratch = Absent
    /\ runs = 0
    /\ Idle
    /\ snap = [p \in Procs |-> Tree]
    /\ prior = [p \in Procs |-> NoPrior]
    /\ mG \in Texts(MaxLen)
    /\ mF \in Texts(MaxLen)
    /\ mN = 0
    /\ mG0 = mG
    /\ mG1 = mG

ApplyMerge ==
    /\ mN \in {0, 1}
    /\ mG' = MergeText(mG, mF)
    /\ mN' = mN + 1
    /\ mG1' = IF mN = 0 THEN MergeText(mG, mF) ELSE mG1
    /\ UNCHANGED <<mF, mG0, envVars, fsVars, scratch, runs, procVars>>

NextMerge == ApplyMerge

SpecMerge == InitMerge /\ [][NextMerge]_vars

\* ------------------------------------------------------------------ claims
Ended(p) == pc[p] = "done"
Count(events, e) == Cardinality({i \in 1..Len(events) : events[i] = e})
Failed(p) == err[p] # "none"
FetchWorked(p) == fetched[p] /\ err[p] \notin {"GitError", "NetworkError"}

\* The target project's part of a file tree (everything but the scratch directory).
Project(t) == [t EXCEPT !.scratch = "absent"]

\* C1, as claimed: after any invocation of init, add or list has ended, the
\* scratch directory does not exist.
C1_ScratchGoneAfterRun ==
    \A p \in Procs : Ended(p) => scratch.state = "absent"

\* C1, amended: after any invocation has ended the scratch directory does not
\* exist, unless the removal in cleanupTemp itself failed, and then the
\* cleanup warning was printed.
C1_ScratchGoneUnlessRemovalFailed ==
    \A p \in Procs :
        Ended(p) => \/ scratch.state = "absent"
                    \/ Count(log[p], "cleanupWarning") = 1

\* C1 witness: a failed invocation that found a stale scratch directory has
\* ended and the directory is gone.
C1_Witness ==
    \E p \in Procs :
        /\ Ended(p) /\ Failed(p)
        /\ snap[p].scratch = "stale"
        /\ scratch.state = "absent"
        /\ Count(log[p], "cleanupWarning") = 0

\* C2, as claimed: in a project without package.json, init and add fail with
\* NotAProject, fetch nothing, and leave the whole file tree as it was, a
\* scratch directory that was already present included.
C2_NoManifestNoChange ==
    \A p \in Procs :
        (Ended(p) /\ cmd[p] \in {"add", "init"} /\ ~snap[p].hasPackageJson)
            => /\ err[p] = "NotAProject"
               /\ ~fetched[p]
               /\ Tree = snap[p]

\* C2, amended: in a project without package.json, init and add fail with
\* NotAProject and, at every point of the invocation, have fetched nothing and
\* changed nothing in the target project; the scratch directory is never
\* created or written, and the only change to the file tree is that the
\* cleanup step removes a scratch directory that was already present.
C2_NoManifestOnlyStaleScratchRemoved ==
    \A p \in Procs :
        (pc[p] # "idle" /\ cmd[p] \in {"add", "init"} /\ ~snap[p].hasPackageJson)
            => /\ ~fetched[p]
               /\ Project(Tree) = Project(snap[p])
               /\ \/ scratch.state = snap[p].scratch
                  \/ Ended(p) /\ scratch.state = "absent"
               /\ Ended(p) => err[p] = "NotAProject"

\* C2 witness: an add or init ended with NotAProject in a project that held a
\* stale scratch directory.
C2_Witness ==
    \E p \in Procs :
        /\ Ended(p) /\ cmd[p] \in {"add", "init"}
        /\ ~snap[p].hasPackageJson
        /\ err[p] = "NotAProject"
        /\ snap[p].scratch = "stale"
        /\ Project(Tree) = Project(snap[p])

\* The directories of the catalog root that list enumerates.
CatalogDirs == {c \in DOMAIN repo.components : repo.components[c].kind = "dir"}

\* C3, as claimed: add(c) for a directory c of the fetched catalog, in a
\* project with a manifest and after a successful fetch, leaves every file of
\* the catalog's c under components/c with the same content.
C3_AddInstallsCatalogComponent ==
    \A p \in Procs :
        (/\ Ended(p) /\ cmd[p] = "add"
         /\ snap[p].hasPackageJson /\ FetchWorked(p)
         /\ arg[p] \in CatalogDirs)
            => /\ arg[p] \in DOMAIN installed
               /\ \A f \in DOMAIN repo.components[arg[p]].files :
                     /\ f \in DOMAIN installed[arg[p]].files
                     /\ installed[arg[p]].files[f] = repo.components[arg[p]].files[f]

\* C4, as claimed: add(c) for a name c absent from the fetched catalog fails
\* with ComponentNotFound and leaves the target components directory as it
\* was: not created, no entry added, modified or removed.
C4_AbsentComponentChangesNothing ==
    \A p \in Procs :
        (/\ Ended(p) /\ cmd[p] = "add"
         /\ snap[p].hasPackageJson /\ FetchWorked(p)
         /\ arg[p] \notin DOMAIN repo.components)
            => /\ err[p] = "ComponentNotFound"
               /\ installed = snap[p].installed
               /\ ("components" \in dirs) = ("components" \in snap[p].dirs)

\* C5, as claimed: for every stylesheet text and every fragment, two merges in
\* a row leave exactly one occurrence of the fragment (overlapping ones
\* counted) and the second merge changes nothing.
C5_ExactlyOneOccurrence ==
    mN = 2 => Occurrences(mG, mF) = 1 /\ mG = mG1

HasNewline(text) == \E i \in 1..Len(text) : text[i] = NL

\* C5, amended: two merges in a row leave the fragment in the stylesheet and
\* the second merge changes nothing; a stylesheet that already contained the
\* fragment is left as it was, with the occurrences it had; a stylesheet that
\* did not contain it ends with exactly one occurrence when the fragment has
\* no newline in it (a fragment with a newline can match across the newline
\* the merge inserts).
C5_MergeTwiceIsMergeOnce ==
    mN = 2 =>
        /\ mG = mG1
        /\ includes(mG, mF)
        /\ includes(mG0, mF) => mG = mG0
        /\ (~includes(mG0, mF) /\ ~HasNewline(mF)) => Occurrences(mG, mF) = 1

\* C5 witness: a fragment that was not in the stylesheet was merged twice and
\* occurs once.
C5_Witness ==
    /\ mN = 2
    /\ ~includes(mG0, mF)
    /\ mG # mG0
    /\ Occurrences(mG, mF) = 1

\* No invocation is under way.
Quiet == \A p \in Procs : pc[p] \in {"idle", "done"}

\* C6, as claimed: whenever no command is running, the global stylesheet
\* contains the style fragment of every component installed under the target
\* components directory.
C6_StylesheetHoldsInstalledFragments ==
    Quiet =>
        \A c \in DOMAIN installed :
            (installed[c].kind = "dir" /\ "styles.css" \in DOMAIN installed[c].files)
                => /\ "globals.css" \in DOMAIN files
                   /\ includes(files["globals.css"], installed[c].files["styles.css"])

\* C7, as claimed: the choices list never offers a styles directory,
\* package.json, node_modules or a hidden entry.
C7_NoExcludedChoice ==
    \A p \in Procs :
        \A name \in choices[p] : name \notin ExcludedNames /\ ~StartsWithDot(name)

Others(m) == DOMAIN m \ {"devDependencies"}

\* C8, as claimed: a successful init on a manifest without devDependencies
\* leaves devDependencies equal to the three pinned entries and every other
\* top-level field as it was, none added, removed or altered; for any
\* manifest every field that existed is still there with its value.
C8_InitTouchesOnlyDevDependencies ==
    \A p \in Procs :
        (Ended(p) /\ cmd[p] = "init" /\ ~Failed(p))
            => /\ \A f \in Others(snap[p].manifest) :
                     f \in DOMAIN manifest /\ manifest[f] = snap[p].manifest[f]
               /\ "devDependencies" \notin DOMAIN snap[p].manifest
                     => /\ manifest["devDependencies"] = PinnedDevDependencies
                        /\ Others(manifest) = Others(snap[p].manifest)

\* C8, amended: as claimed, except that init adds an empty dependencies field
\* when the manifest had none; and for a manifest with devDependencies, its
\* entries other than the three pinned names are kept.
C8_InitAddsOnlyEmptyDependencies ==
    \A p \in Procs :
        (Ended(p) /\ cmd[p] = "init" /\ ~Failed(p))
            => /\ \A f \in Others(snap[p].manifest) :
                     f \in DOMAIN manifest /\ manifest[f] = snap[p].manifest[f]
               /\ Others(manifest) = Others(snap[p].manifest) \cup {"dependencies"}
               /\ "dependencies" \notin DOMAIN snap[p].manifest
                     => manifest["dependencies"] = EmptyFn
               /\ \A d \in DOMAIN PinnedDevDependencies :
                     manifest["devDependencies"][d] = PinnedDevDependencies[d]
               /\ "devDependencies" \notin DOMAIN snap[p].manifest
                     => manifest["devDependencies"] = PinnedDevDependencies
               /\ "devDependencies" \in DOMAIN snap[p].manifest
                     => \A d \in DOMAIN snap[p].manifest["devDependencies"]
                                \ DOMAIN PinnedDevDependencies :
                            /\ d \in DOMAIN manifest["devDependencies"]
                            /\ manifest["devDependencies"][d]
                                  = snap[p].manifest["devDependencies"][d]

\* C8 witness: an init succeeded on a manifest that had dependencies and no
\* devDependencies.
C8_Witness ==
    \E p \in Procs :
        /\ Ended(p) /\ cmd[p] = "init" /\ ~Failed(p)
        /\ "devDependencies" \notin DOMAIN snap[p].manifest
        /\ "dependencies" \in DOMAIN snap[p].manifest
        /\ manifest["devDependencies"] = PinnedDevDependencies

\* C9: an error thrown at any stage is reported exactly once as a failure,
\* before the cleanup, and never together with a success; without an error no
\* failure is reported; every ended invocation ran its cleanup last.
C9_FailureReportedOnceThenCleanup ==
    \A p \in Procs :
        /\ Count(log[p], "fail") + Count(log[p], "succeed") <= 1
        /\ Count(log[p], "fail") = 1 => Failed(p)
        /\ (Failed(p) /\ pc[p] \in {"cleanup", "done"})
              => Count(log[p], "fail") = 1 /\ Count(log[p], "succeed") = 0
        /\ pc[p] = "cleanup" => Count(log[p], "cleanup") = 0
        /\ Ended(p) => /\ Count(log[p], "cleanup") = 1
                       /\ log[p][Len(log[p])] = "cleanup"

\* C9 witness: an invocation failed after the fetch and has ended with one
\* failure report followed by the cleanup.
C9_Witness ==
    \E p \in Procs :
        /\ Ended(p) /\ Failed(p) /\ fetched[p]
        /\ Count(log[p], "fail") = 1
        /\ log[p][Len(log[p])] = "cleanup"

\* Process q is past its ensureDir calls and has not ended: it is using TEMP_DIR.
UsingScratch(q) == pc[q] \notin {"idle", "validate", "ensure", "done", "killed"}

\* C10, as claimed: while an invocation is using the scratch directory, no
\* other invocation clones into, reads or removes a scratch directory that it
\* did not make itself.
C10_ScratchNeverShared ==
    \A p, q \in Procs : (p # q /\ UsingScratch(q)) => ~foreign[p]

\* C11, as claimed: a non-empty scratch directory left by an earlier run does
\* not make the fetch fail: the clone never ends with git's "destination
\* exists and is not empty" error.
C11_FetchSurvivesStaleScratch ==
    \A p \in Procs :
        (fetched[p] /\ snap[p].scratch \in {"stale", "clone"})
            => err[p] # "GitError"

\* The catalog was fetched and read, and none of its entries is installable
\* (a component directory, by the exclusions of the catalog lister).
EmptyCatalog(p) ==
    /\ FetchWorked(p)
    /\ repo.components # EmptyFn
    /\ FilteredChoices(repo.components) = {}

\* C12, as claimed: when the fetched catalog yields no installable component,
\* list reports "no components available", does not prompt, reports no
\* failure, leaves the target project as it was, and runs the cleanup.
C12_EmptyCatalogReported ==
    \A p \in Procs :
        (Ended(p) /\ cmd[p] = "list" /\ EmptyCatalog(p))
            => /\ Count(log[p], "info") = 1
               /\ Count(log[p], "prompt") = 0
               /\ Count(log[p], "fail") = 0
               /\ Project(Tree) = Project(snap[p])
               /\ Count(log[p], "cleanup") = 1

\* The entries of the target components directory that differ from the start
\* of p's invocation.
ChangedEntries(p) ==
    {c \in DOMAIN installed :
        c \notin DOMAIN snap[p].installed \/ installed[c] # snap[p].installed[c]}

\* The prompt of p's list was shown and returned nothing.
Cancelled(p) ==
    cmd[p] = "list" /\ Count(log[p], "prompt") = 1 /\ arg[p] = NoChoice

\* C13: a list whose prompt returns no choice changes nothing in the target
\* project, reports no failure and runs the cleanup; and any list installs at
\* most one entry, the one chosen.
C13_CancelledPromptIsNoOp ==
    \A p \in Procs :
        /\ (Ended(p) /\ Cancelled(p))
              => /\ Project(Tree) = Project(snap[p])
                 /\ ~Failed(p)
                 /\ Count(log[p], "fail") = 0
                 /\ Count(log[p], "cleanup") = 1
        /\ (cmd[p] = "list" /\ pc[p] # "idle")
              => /\ ChangedEntries(p) \subseteq {arg[p]}
                 /\ DOMAIN snap[p].installed \subseteq DOMAIN installed

\* C13 witness: a list offered choices, the prompt was cancelled, and the
\* invocation has ended.
C13_Witness ==
    \E p \in Procs :
        /\ Ended(p) /\ Cancelled(p)
        /\ choices[p] # {}
        /\ Project(Tree) = Project(snap[p])

\* The catalog directory of the remote repository that p's componentPath lies in.
RepoSource(p) ==
    IF cmd[p] = "add" /\ variant = "cli" THEN repo.legacy ELSE repo.components

\* p's invocation installed the component arg[p] and reported success.
InstalledOne(p) ==
    /\ Ended(p) /\ cmd[p] \in {"add", "list"} /\ ~Failed(p)
    /\ arg[p] # NoChoice
    /\ Count(log[p], "succeed") = 1

\* The component p installed has a style fragment.
ComponentHasStyles(p) ==
    /\ RepoSource(p)[arg[p]].kind = "dir"
    /\ "styles.css" \in DOMAIN RepoSource(p)[arg[p]].files

ComponentStyles(p) == RepoSource(p)[arg[p]].files["styles.css"]

\* Everything of the target project but components/<arg[p]> and the global
\* stylesheet is as it was when p's invocation started.
FrameOfInstall(p) ==
    /\ ChangedEntries(p) \subseteq {arg[p]}
    /\ DOMAIN snap[p].installed \subseteq DOMAIN installed
    /\ hasPackageJson = snap[p].hasPackageJson
    /\ manifest = snap[p].manifest
    /\ \A f \in {"tailwind.config.js", "postcss.config.js"} :
          /\ (f \in DOMAIN files) = (f \in DOMAIN snap[p].files)
          /\ f \in DOMAIN files => files[f] = snap[p].files[f]

\* C14, as claimed: installing one component changes only components/c and
\* the global stylesheet, and the stylesheet gains c's fragment exactly once:
\* it holds one occurrence more than before.
C14_InstallGainsFragmentOnce ==
    \A p \in Procs :
        InstalledOne(p)
            => /\ FrameOfInstall(p)
               /\ ComponentHasStyles(p)
                     => Occurrences(files["globals.css"], ComponentStyles(p))
                          = Occurrences(snap[p].files["globals.css"], ComponentStyles(p)) + 1

\* C14, amended: installing one component changes only components/c and the
\* global stylesheet; the stylesheet is left as it was when c has no fragment
\* or its fragment was already a substring of it, and otherwise is the old
\* stylesheet followed by a newline and the fragment, appended once; either
\* way it contains the fragment afterwards.
C14_InstallAppendsFragmentAtMostOnce ==
    \A p \in Procs :
        InstalledOne(p)
            => /\ FrameOfInstall(p)
               /\ ("globals.css" \in DOMAIN files) = ("globals.css" \in DOMAIN snap[p].files)
               /\ ~ComponentHasStyles(p) => files = snap[p].files
               /\ ComponentHasStyles(p)
                     => /\ includes(files["globals.css"], ComponentStyles(p))
                        /\ IF includes(snap[p].files["globals.css"], ComponentStyles(p))
                           THEN files = snap[p].files
                           ELSE files["globals.css"]
                                  = snap[p].files["globals.css"] \o <<NL>> \o ComponentStyles(p)

\* C14 witness: button was installed beside an installed card, and the
\* stylesheet grew by button's fragment.
C14_Witness ==
    \E p \in Procs :
        /\ InstalledOne(p) /\ arg[p] = "button"
        /\ "card" \in DOMAIN snap[p].installed
        /\ installed["card"] = snap[p].installed["card"]
        /\ files["globals.css"] = snap[p].files["globals.css"] \o <<NL>> \o ComponentStyles(p)

\* The step of p is its mergeStyles call, run to its end.
MergeStep(p) == pc[p] = "merge" /\ pc'[p] \in {"succeed", "catch"}

\* new is old followed by a newline followed by fragment.
AppendedTo(old, fragment, new) ==
    /\ Len(new) = Len(old) + 1 + Len(fragment)
    /\ SubSeq(new, 1, Len(old)) = old
    /\ new[Len(old) + 1] = NL
    /\ SubSeq(new, Len(old) + 2, Len(new)) = fragment

\* C15: one style merge changes nothing when the component has no fragment or
\* the fragment is already a substring of the stylesheet G, and otherwise
\* leaves G, a newline, the fragment; G is always a prefix of the result, and
\* no step of an add or a list rewrites or removes stylesheet content.
C15_MergeNoOpOrAppend ==
    [][\A p \in Procs :
          /\ (MergeStep(p) /\ ~HasFragment(p))
                => files' = files /\ pc'[p] = "succeed"
          /\ (MergeStep(p) /\ HasFragment(p) /\ "globals.css" \in DOMAIN files)
                => /\ pc'[p] = "succeed"
                   /\ DOMAIN files' = DOMAIN files
                   /\ IsPrefix(files["globals.css"], files'["globals.css"])
                   /\ IF includes(files["globals.css"], Fragment(p))
                      THEN files' = files
                      ELSE AppendedTo(files["globals.css"], Fragment(p),
                                      files'["globals.css"])
          /\ (cmd'[p] \in {"add", "list"} /\ cmd[p] = cmd'[p]
                /\ "globals.css" \in DOMAIN files)
                => /\ "globals.css" \in DOMAIN files'
                   /\ IsPrefix(files["globals.css"], files'["globals.css"])
      ]_vars

\* C15 witness: an add merged a fragment the stylesheet did not contain, and
\* the stylesheet is the old one, a newline, the fragment.
C15_Witness ==
    \E p \in Procs :
        /\ pc[p] = "succeed" /\ cmd[p] = "add"
        /\ HasFragment(p)
        /\ "globals.css" \in DOMAIN snap[p].files
        /\ ~includes(snap[p].files["globals.css"], Fragment(p))
        /\ AppendedTo(snap[p].files["globals.css"], Fragment(p), files["globals.css"])

\* Every file of the catalog entry src is in the installed entry, unchanged.
HoldsCopyOf(entry, src) ==
    /\ entry.kind = src.kind
    /\ \A f \in DOMAIN src.files :
          f \in DOMAIN entry.files /\ entry.files[f] = src.files[f]

\* The repository has the stylesheet template init copies first.
RepoHasTemplate ==
    /\ "styles" \in DOMAIN repo.components
    /\ "globals.css" \in DOMAIN repo.components["styles"].files

\* What init writes as tailwind.config.js.
InitTailwind ==
    IF variant = "src" THEN ModifyTailwind(repo.files["tailwind.config.js"])
    ELSE repo.files["tailwind.config.js"]

\* p's add or list copied the component and then failed in the style merge.
FailedInMerge(p) ==
    Ended(p) /\ cmd[p] \in {"add", "list"} /\ err[p] = "NoStylesheet"

\* p's init failed at a copy that follows the copy of the stylesheet template.
FailedInLaterCopy(p) ==
    /\ Ended(p) /\ cmd[p] = "init" /\ err[p] = "MissingSourceFile"
    /\ RepoHasTemplate

\* C16: there is no rollback. An add or list that fails in the style merge
\* reports the failure and leaves the component it copied in the project; an
\* init that fails at a later config copy reports the failure and leaves the
\* stylesheet template (and the tailwind config, when that copy came first)
\* it already wrote.
C16_NoRollbackAfterFailure ==
    \A p \in Procs :
        /\ FailedInMerge(p) =>
              /\ Count(log[p], "fail") = 1 /\ Count(log[p], "succeed") = 0
              /\ arg[p] \in DOMAIN installed
              /\ HoldsCopyOf(installed[arg[p]], RepoSource(p)[arg[p]])
              /\ "components" \in dirs
        /\ FailedInLaterCopy(p) =>
              /\ Count(log[p], "fail") = 1 /\ Count(log[p], "succeed") = 0
              /\ "globals.css" \in DOMAIN files
              /\ files["globals.css"] = repo.components["styles"].files["globals.css"]
              /\ {"styles", "components"} \subseteq dirs
              /\ "tailwind.config.js" \in DOMAIN repo.files =>
                    /\ "tailwind.config.js" \in DOMAIN files
                    /\ files["tailwind.config.js"] = InitTailwind

\* C16 witness: a failed add left a component that was not there before, and
\* a failed init left a stylesheet that differs from the one before.
C16_Witness ==
    \E p \in Procs :
        \/ /\ FailedInMerge(p)
           /\ arg[p] \notin DOMAIN snap[p].installed
           /\ arg[p] \in DOMAIN installed
        \/ /\ FailedInLaterCopy(p)
           /\ "tailwind.config.js" \in DOMAIN repo.files
           /\ "tailwind.config.js" \notin DOMAIN snap[p].files
           /\ "tailwind.config.js" \in DOMAIN files

\* p's invocation started with a stale scratch directory in the working
\* directory: the partial clone of a run that was killed.
StartedOnStale(p) == snap[p].scratch = "stale"

ListSelectCopies(t, c) == ~CopyFails(repo.components[c], t.installed, c)

ListSelectInstalled(t, c) ==
    IF ListSelectCopies(t, c)
    THEN CopyEntry(repo.components[c], t.installed, c)
    ELSE t.installed

ListSelectFiles(t, c) ==
    IF /\ ListSelectCopies(t, c)
       /\ repo.components[c].kind = "dir"
       /\ "styles.css" \in DOMAIN repo.components[c].files
       /\ "globals.css" \in DOMAIN t.files
    THEN [t.files EXCEPT !["globals.css"] =
             MergeText(@, repo.components[c].files["styles.css"])]
    ELSE t.files

\* C18: for every component c that list offers, add(c) run in a project with
\* a manifest, once its fetch worked, finds c and leaves the same components
\* and the same stylesheet as a list in which the user selects c.
C18_AddEqualsListSelect ==
    \A p \in Procs :
        (/\ Ended(p) /\ cmd[p] = "add"
         /\ snap[p].hasPackageJson
         /\ FetchWorked(p)
         /\ arg[p] \in ListChoices(variant, repo.components))
        => /\ err[p] # "ComponentNotFound"
           /\ installed = ListSelectInstalled(snap[p], arg[p])
           /\ files = ListSelectFiles(snap[p], arg[p])

\* p's invocation is an init that directly follows an init which ran to its
\* end without error.
SecondInit(p) == cmd[p] = "init" /\ prior[p] = "init"

\* C19: init is idempotent on the target project. An init that directly
\* follows a completed init, once it has ended, leaves stylesheet, config
\* files, manifest, directories and components exactly as the first init
\* left them.
C19_SecondInitChangesNothing ==
    \A p \in Procs :
        (Ended(p) /\ SecondInit(p)) => Project(Tree) = Project(snap[p])

\* C19 witness: a second init ran to the end without error, and rewrote the
\* files the first one had written.
C19_Witness ==
    \E p \in Procs :
        /\ Ended(p) /\ SecondInit(p)
        /\ ~Failed(p) /\ Count(log[p], "succeed") = 1
        /\ {"globals.css", "tailwind.config.js", "postcss.config.js"} \subseteq DOMAIN files
        /\ files["tailwind.config.js"] = InitTailwind
        /\ manifest = InitManifest(manifest)

====
